---- MODULE Spec2Model ----
(***************************************************************************)
(* Model of the exec action of risc-bot: the execution status aggregate   *)
(* (ExecStatus, src/cmd/action/exec.rs), the orchestration of exec_cmd    *)
(* (ticker raced against the isolated command), the line-streaming        *)
(* process runner (src/executor/normal.rs) and the fire-and-forget edit   *)
(* requests spawned through State::telegram_spawn (src/state.rs).         *)
(*                                                                         *)
(* Strings are sequences of bytes.  Time is in milliseconds.              *)
(***************************************************************************)
EXTENDS Integers, Sequences, FiniteSets, TLC

VARIABLES
    pc,         \* position of exec_cmd: "start", "racing", "flush", "done", "panicked"
    result,     \* what exec_cmd returned: [tag, cause]
    es,         \* the ExecStatus behind the Arc<Mutex<..>>
    now,        \* the system clock (ms)
    next_tick,  \* deadline of the next tick of time::interval(1000ms), None before it exists
    proc,       \* the three futures joined by normal::execute
    nlines,     \* number of lines the child has produced so far
    full,       \* history: everything ever passed to append, untruncated
    outcome,    \* per spawned edit request: "pending", "applied" or "failed"
    frontend,   \* the text the Telegram status message currently shows
    final_idx,  \* history: index of the request spawned by the final update(), 0 if none
    tcount,     \* input of the throttle_secs table specification
    toffset,    \* input of the throttle_secs table specification
    tsecs,      \* last value computed by the throttle_secs table specification
    child,      \* the child process: the lines it wrote to each pipe, the write ends it holds open
    horizon,    \* the clock is not followed beyond this time
    call,       \* history: the last method called on the ExecStatus, numbered
    sunk,       \* history: the calls of the line sink, [stream, line] each
    sync,       \* execute_sync: its shared buffer and the exit status it got
    dirty_at,   \* history of the ticker specification: when the unpushed change was made
    invoked     \* Exec::invoke: the message it got and the help reply it sent

vars == <<pc, result, es, now, next_tick, proc, nlines, full, outcome, frontend,
          final_idx, tcount, toffset, tsecs, child, horizon, call, sunk, sync,
                   dirty_at, invoked>>

----------------------------------------------------------------------------
(* Bounds of the model *)

\* exec.rs:32 sets the budget to 4096 - 150 bytes; the model scales it down.
OUTPUT_TRUNCATE == 3

\* The child produces at most this many lines over both streams.
MaxLines == 2

\* The clock does not advance beyond this many milliseconds.
MaxTime == 2000

\* Largest updated_count the throttle_secs table is evaluated at.
MaxCount == 60

\* Most pushes a status has made before its methods are called.
MaxPushes == 8

\* Most method calls and clock steps made on a status.
MaxCalls == 3

----------------------------------------------------------------------------
(* Program constants *)

TICK_MS == 1000
SLACK_MS == 50
EXEC_TIMEOUT == 300000
EXEC_TIMEOUT_PRECISION == 1000
PLACEHOLDER == "<i>Executing command...</i>"

\* Steps by which the clock advances between two polls.
ClockSteps == {950, 1000}

\* Option<T>
None == <<>>
Some(x) == <<x>>

\* Bytes: ASCII "a", ASCII "<" (escaped by encode_minimal), the newline, and
\* the two bytes 0xC3 0xA9 of the UTF-8 encoding of one two-byte character.
NL == "\n"
Continuation == {"A9"}

\* The lines tokio's lines() can yield (valid UTF-8, no newline inside).
Lines == {<<>>, <<"a">>, <<"<">>, <<"C3", "A9">>, <<"C3", "A9", "a">>}

\* ExitStatus: code() is None when the process was killed by a signal.
ExitStatuses == {[code |-> Some(0)], [code |-> Some(1)], [code |-> Some(124)],
                 [code |-> None]}

success(status) == status.code = Some(0)

----------------------------------------------------------------------------
(* Strings *)

\* str::is_char_boundary(at), at counted from 0
is_char_boundary(s, at) ==
    \/ at = 0
    \/ at = Len(s)
    \/ (at < Len(s) /\ s[at + 1] \notin Continuation)

\* String::split_off(at): the bytes from at on (panics off a char boundary)
split_off(s, at) == SubSeq(s, at + 1, Len(s))

\* htmlescape::encode_minimal
RECURSIVE encode_minimal(_)
encode_minimal(s) ==
    IF s = <<>> THEN <<>>
    ELSE (IF Head(s) = "<" THEN <<"&", "l", "t", ";">> ELSE <<Head(s)>>)
         \o encode_minimal(Tail(s))

\* SystemTime::elapsed(): Err when the clock is behind the given time
elapsed(t, clock) == IF clock >= t THEN Some(clock - t) ELSE None

----------------------------------------------------------------------------
(* ExecStatus (exec.rs:164-493).  The field `state` stands for the edit    *)
(* requests spawned so far through self.state.telegram_spawn, in the order *)
(* they were spawned.                                                      *)

\* Mutant of new: the status starts out changed.
new_changed(clock) ==
    [output |-> <<>>, status |-> None, started_at |-> clock,
     completion_duration |-> None, changed |-> TRUE, changed_at |-> clock,
     updated_count |-> 0, state |-> <<>>]

new(clock) ==
    [output |-> <<>>,
     status |-> None,
     started_at |-> clock,
     completion_duration |-> None,
     changed |-> FALSE,
     changed_at |-> clock,
     updated_count |-> 0,
     state |-> <<>>]

\* Mutant of truncating: a buffer of exactly OUTPUT_TRUNCATE bytes is not.
truncating_strict(self) == Len(self.output) > OUTPUT_TRUNCATE

truncating(self) == Len(self.output) >= OUTPUT_TRUNCATE

\* append: [self |-> the status afterwards, panic |-> split_off panicked].
\* When split_off panics the bytes are already appended and nothing is cut.
append(self, output) ==
    LET grown == [self EXCEPT !.output = @ \o output]
        truncate_at == Len(grown.output) - OUTPUT_TRUNCATE
        mark(s) == IF output # <<>> THEN [s EXCEPT !.changed = TRUE] ELSE s
    IN  IF truncating(grown)
        THEN IF is_char_boundary(grown.output, truncate_at)
             THEN [self |-> mark([grown EXCEPT
                                    !.output = split_off(grown.output, truncate_at)]),
                   panic |-> FALSE]
             ELSE [self |-> grown, panic |-> TRUE]
        ELSE [self |-> mark(grown), panic |-> FALSE]

append_line(self, line) ==
    LET sep == IF self.output # <<>>
               THEN append(self, <<NL>>)
               ELSE [self |-> self, panic |-> FALSE]
    IN  IF sep.panic THEN sep ELSE append(sep.self, line)

\* Mutant of set_status: the completion time is not taken.
set_status_untimed(self, status, clock) ==
    [self EXCEPT
        !.changed = IF self.status # Some(status) THEN TRUE ELSE @,
        !.status = Some(status)]

\* Mutant of set_status: every call marks the status as changed.
set_status_always_changed(self, status, clock) ==
    [self EXCEPT
        !.changed = TRUE,
        !.status = Some(status),
        !.completion_duration = elapsed(self.started_at, clock)]

\* Mutant of set_status: the status is not stored.
set_status_not_stored(self, status, clock) ==
    [self EXCEPT
        !.changed = IF self.status # Some(status) THEN TRUE ELSE @,
        !.completion_duration = elapsed(self.started_at, clock)]

set_status(self, status, clock) ==
    [self EXCEPT
        !.changed = IF self.status # Some(status) THEN TRUE ELSE @,
        !.status = Some(status),
        !.completion_duration = elapsed(self.started_at, clock)]

completed(self) == self.status # None

\* Mutant of throttle_secs: the first threshold is off by one.
throttle_secs_off_by_one(self, offset) ==
    LET count == self.updated_count + offset
    IN  IF count <= 2 THEN 1
        ELSE IF count < 5 THEN 3
        ELSE IF count < 8 THEN 5
        ELSE 10

throttle_secs(self, offset) ==
    LET count == self.updated_count + offset
    IN  IF count < 2 THEN 1
        ELSE IF count < 5 THEN 3
        ELSE IF count < 8 THEN 5
        ELSE 10

\* Mutant of throttling: a delay of one second counts as throttling.
throttling_from_one(self, offset) == throttle_secs(self, offset) >= 1

throttling(self, offset) == throttle_secs(self, offset) > 1

\* Mutant of throttle_duration: the slack is added.
throttle_duration_late(self) == throttle_secs(self, 0) * 1000 + SLACK_MS

\* Mutant of throttle_duration: the delay of the next update count.
throttle_duration_next(self) == throttle_secs(self, 1) * 1000 - SLACK_MS

throttle_duration(self) == throttle_secs(self, 0) * 1000 - SLACK_MS

\* Mutant of timed_out: the precision is not subtracted.
timed_out_at_ceiling(self) ==
    IF self.status = None \/ self.status[1].code # Some(124) THEN FALSE
    ELSE IF self.completion_duration = None THEN TRUE
    ELSE self.completion_duration[1] >= EXEC_TIMEOUT

timed_out(self) ==
    IF self.status = None \/ self.status[1].code # Some(124) THEN FALSE
    ELSE IF self.completion_duration = None THEN TRUE
    ELSE self.completion_duration[1] >= EXEC_TIMEOUT - EXEC_TIMEOUT_PRECISION

\* format_duration, as the number of milliseconds the formatted text denotes:
\* whole seconds from one second on, else the largest unit of the duration.
format_duration(self) ==
    IF self.completion_duration = None THEN None
    ELSE LET d == self.completion_duration[1]
         IN  IF d \div 1000 >= 1 THEN Some((d \div 1000) * 1000) ELSE Some(d)

Label(name, arg) == [name |-> name, arg |-> arg]

\* Mutant of build_status_msg: the early return is left out.
build_status_msg_formatted(self) ==
    LET emoji == IF ~completed(self) THEN "hourglass"
                 ELSE IF success(self.status[1]) THEN "check" ELSE "cross"
        notice == IF completed(self) /\ ~success(self.status[1])
                  THEN Some(IF self.status[1].code # None
                            THEN ToString(self.status[1].code[1]) ELSE "?")
                  ELSE None
        l1 == IF ~completed(self) /\ throttling(self, 1)
              THEN <<Label("throttling", throttle_secs(self, 1))>> ELSE <<>>
        l2 == IF timed_out(self) THEN <<Label("timed out", 0)>> ELSE <<>>
        l3 == IF completed(self) /\ self.completion_duration # None
              THEN <<Label("took", format_duration(self)[1])>> ELSE <<>>
        l4 == IF truncating(self)
              THEN IF completed(self) THEN <<Label("truncated", 0)>>
                   ELSE <<Label("truncating", 0)>>
              ELSE <<>>
    IN  [literal |-> IF self.output = <<>> THEN "<i>No output</i>" ELSE "",
         block |-> encode_minimal(self.output),
         prefix |-> IF self.output # <<>> /\ truncating(self)
                    THEN "[truncated] " ELSE "",
         emoji |-> emoji,
         notice |-> notice,
         labels |-> l1 \o l2 \o l3 \o l4]

\* build_status_msg: the parts of the HTML text it formats.
build_status_msg(self) ==
    IF ~completed(self) /\ self.output = <<>>
    THEN [literal |-> PLACEHOLDER, block |-> <<>>, prefix |-> "", emoji |-> "",
          notice |-> None, labels |-> <<>>]
    ELSE
      LET emoji == IF ~completed(self) THEN "hourglass"
                   ELSE IF success(self.status[1]) THEN "check" ELSE "cross"
          notice == IF completed(self) /\ ~success(self.status[1])
                    THEN Some(IF self.status[1].code # None
                              THEN ToString(self.status[1].code[1]) ELSE "?")
                    ELSE None
          l1 == IF ~completed(self) /\ throttling(self, 1)
                THEN <<Label("throttling", throttle_secs(self, 1))>> ELSE <<>>
          l2 == IF timed_out(self) THEN <<Label("timed out", 0)>> ELSE <<>>
          l3 == IF completed(self) /\ self.completion_duration # None
                THEN <<Label("took", format_duration(self)[1])>> ELSE <<>>
          l4 == IF truncating(self)
                THEN IF completed(self) THEN <<Label("truncated", 0)>>
                     ELSE <<Label("truncating", 0)>>
                ELSE <<>>
      IN  [literal |-> IF self.output = <<>> THEN "<i>No output</i>" ELSE "",
           block |-> encode_minimal(self.output),
           prefix |-> IF self.output # <<>> /\ truncating(self)
                      THEN "[truncated] " ELSE "",
           emoji |-> emoji,
           notice |-> notice,
           labels |-> l1 \o l2 \o l3 \o l4]

\* Mutant of update_status_msg: the update is not counted.
update_status_msg_uncounted(self, clock) ==
    [self EXCEPT
        !.state = Append(@, build_status_msg(self)),
        !.changed = FALSE,
        !.changed_at = clock]

\* update_status_msg: spawn the edit request, reset the changed status.
update_status_msg(self, clock) ==
    [self EXCEPT
        !.state = Append(@, build_status_msg(self)),
        !.changed = FALSE,
        !.updated_count = @ + 1,
        !.changed_at = clock]

\* Mutant of update: the changed flag is not looked at.
update_unconditional(self, clock) == update_status_msg(self, clock)

\* Mutant of update: the update is throttled like the ticker's.
update_only_throttled(self, clock) ==
    LET e == elapsed(self.changed_at, clock)
    IN  IF e = None \/ ~self.changed THEN self
        ELSE IF e[1] < throttle_duration(self) THEN self
        ELSE update_status_msg(self, clock)

update(self, clock) ==
    IF ~self.changed THEN self ELSE update_status_msg(self, clock)

\* Mutant of update_throttled: the elapsed time is not looked at.
update_throttled_eager(self, clock) == update(self, clock)

update_throttled(self, clock) ==
    LET e == elapsed(self.changed_at, clock)
    IN  IF e = None THEN self
        ELSE IF e[1] < throttle_duration(self) THEN self
        ELSE update(self, clock)

----------------------------------------------------------------------------
(* The frontend *)

NoMessage ==
    [literal |-> "", block |-> <<>>, prefix |-> "", emoji |-> "",
     notice |-> None, labels |-> <<>>]

\* The text of the reply create_status_msg sends.
InitialMessage == [NoMessage EXCEPT !.literal = PLACEHOLDER]

\* Mutant of telegram_spawn: the request is awaited where it is made.
telegram_spawn_awaited(self) ==
    outcome \o [i \in 1..(Len(self.state) - Len(outcome)) |-> "applied"]

\* telegram_spawn: every request spawned by `self` is a task of its own.
telegram_spawn(self) ==
    outcome \o [i \in 1..(Len(self.state) - Len(outcome)) |-> "pending"]

Ok == [tag |-> "Ok", cause |-> ""]
Err(tag, cause) == [tag |-> tag, cause |-> cause]

----------------------------------------------------------------------------
(* exec_cmd *)

\* The child and the three futures of try_join3: the two line streams, the
\* wait for the exit status, and the error the runner failed with, if any.
\* `read` counts the lines each stream has yielded.
NoProc ==
    [spawned |-> FALSE, stdout |-> "open", stderr |-> "open", exit |-> None,
     error |-> None, read |-> [stdout |-> 0, stderr |-> 0]]

Streams == {"stdout", "stderr"}

\* The child before it has written anything: both pipes empty and open.
\* The lines the child may write to a pipe: any line to stdout, a plain one
\* to stderr (the sink treats both alike).
Written(stream) == IF stream = "stdout" THEN Lines ELSE {<<"a">>}

NoChild == [stdout |-> <<>>, stderr |-> <<>>, open |-> Streams]

NoCall == [n |-> 0, op |-> "", arg |-> None]

\* isolated.rs:67: String::new() behind the Arc<Mutex<..>>, no status yet.
NoSync == [buf |-> <<>>, status |-> None]

\* exec_cmd called on its own: no message has gone through Exec::invoke.
NotInvoked == [data |-> None, cmd |-> <<>>, help |-> "none"]

Init ==
    /\ pc = "start"
    /\ result = [tag |-> "none", cause |-> ""]
    /\ es = new(0)
    /\ now = 0
    /\ next_tick = None
    /\ proc = NoProc
    /\ nlines = 0
    /\ full = <<>>
    /\ outcome = <<>>
    /\ frontend = NoMessage
    /\ final_idx = 0
    /\ tcount = 0
    /\ toffset = 0
    /\ tsecs = 0
    /\ child = NoChild
    /\ horizon = MaxTime
    /\ call = NoCall
    /\ sunk = <<>>
    /\ sync = NoSync
    /\ dirty_at = 0
    /\ invoked = NotInvoked

\* The variables exec_cmd does not touch.
tvars == <<tcount, toffset, tsecs, horizon, call, sync, dirty_at, invoked>>

\* Mutant of create_status_msg: an empty response is not checked for.
create_status_msg_unchecked(reply, clock) ==
    IF reply # "send"
    THEN [ok |-> Some(new(clock)), err |-> None]
    ELSE [ok |-> None, err |-> Some(Err("StatusMessage", reply))]

\* create_status_msg: Ok(ExecStatus::new(..)) when the reply was sent and
\* Telegram returned the message, else Error::StatusMessage.
create_status_msg(reply, clock) ==
    IF reply = "message"
    THEN [ok |-> Some(new(clock)), err |-> None]
    ELSE [ok |-> None, err |-> Some(Err("StatusMessage", reply))]

\* exec.rs:53-84: create the status message (`?` returns its error), then set
\* up the command future and the interval.
CreateStatusMsg(reply) ==
    /\ pc = "start"
    /\ frontend' = IF reply = "message" THEN InitialMessage ELSE NoMessage
    /\ LET r == create_status_msg(reply, now)
       IN  IF r.err = None
           THEN /\ es' = r.ok[1]
                /\ next_tick' = Some(now)
                /\ pc' = "racing"
                /\ UNCHANGED result
           ELSE /\ pc' = "done"
                /\ result' = r.err[1]
                /\ UNCHANGED <<es, next_tick>>
    /\ UNCHANGED <<now, proc, nlines, full, outcome, final_idx, child, tvars, sunk>>

\* Mutant of Abort: the error is kept for after the final update.
AbortAfterFlush(cause) ==
    /\ pc' = "flush"
    /\ proc' = [proc EXCEPT !.error = Some(cause)]
    /\ UNCHANGED <<result, es, outcome, final_idx>>

\* What exec_cmd does when try_select yields an error: `?` returns it.
Abort(cause) ==
    /\ pc' = "done"
    /\ result' = Err("Execute", cause)
    /\ proc' = [proc EXCEPT !.error = Some(cause)]
    /\ UNCHANGED <<es, outcome, final_idx>>

\* Mutant of Tick: the ticker runs between the two appends of append_line.
TickTorn ==
    /\ pc = "racing"
    /\ now >= next_tick[1]
    /\ es' = update_throttled(append(es, <<NL>>).self, now)
    /\ outcome' = telegram_spawn(es')
    /\ next_tick' = Some(next_tick[1] + TICK_MS)
    /\ UNCHANGED <<pc, result, now, proc, nlines, full, frontend, final_idx, child, tvars, sunk>>

\* Mutant of Tick: the interval outlives the race.
TickDetached ==
    /\ pc \in {"racing", "done"}
    /\ next_tick # None
    /\ now >= next_tick[1]
    /\ es' = update_throttled(es, now)
    /\ outcome' = telegram_spawn(es')
    /\ next_tick' = Some(next_tick[1] + TICK_MS)
    /\ UNCHANGED <<pc, result, now, proc, nlines, full, frontend, final_idx, child, tvars, sunk>>

\* exec.rs:78-84: a tick of the interval calls update_throttled.
Tick ==
    /\ pc = "racing"
    /\ now >= next_tick[1]
    /\ es' = update_throttled(es, now)
    /\ outcome' = telegram_spawn(es')
    /\ next_tick' = Some(next_tick[1] + TICK_MS)
    /\ UNCHANGED <<pc, result, now, proc, nlines, full, frontend, final_idx, child, tvars, sunk>>

\* Mutant of Spawn: the spawn error is found after the child has run.
SpawnLazy(ok) ==
    /\ pc = "racing"
    /\ next_tick[1] > es.started_at
    /\ IF ok
       THEN /\ proc' = [proc EXCEPT !.spawned = TRUE]
            /\ UNCHANGED <<pc, result, es, outcome, final_idx>>
       ELSE Abort("Spawn")
    /\ UNCHANGED <<now, next_tick, nlines, full, frontend, child, tvars, sunk>>

\* normal.rs:20-26: spawn the child on the first poll of the command future,
\* which try_select polls after the ticker.
Spawn(ok) ==
    /\ pc = "racing"
    /\ ~proc.spawned
    /\ next_tick[1] > es.started_at
    /\ IF ok
       THEN /\ proc' = [proc EXCEPT !.spawned = TRUE]
            /\ UNCHANGED <<pc, result, es, outcome, final_idx>>
       ELSE Abort("Spawn")
    /\ UNCHANGED <<now, next_tick, nlines, full, frontend, child, tvars, sunk>>

\* What append_line passes to append.
Appended(self, line, r) ==
    IF self.output = <<>> THEN line
    ELSE IF r.panic /\ Len(r.self.output) = Len(self.output) + 1 THEN <<NL>>
    ELSE <<NL>> \o line

\* The child writes a line to one of its pipes.
Write(stream, line) ==
    /\ pc = "racing"
    /\ proc.spawned
    /\ stream \in child.open
    /\ nlines < MaxLines
    /\ child' = [child EXCEPT ![stream] = Append(@, line)]
    /\ nlines' = nlines + 1
    /\ UNCHANGED <<pc, result, es, now, next_tick, proc, full, outcome, frontend,
                   final_idx, tvars, sunk>>

\* The child closes one of its pipes while it runs.
Close(stream) ==
    /\ pc = "racing"
    /\ proc.spawned
    /\ stream \in child.open
    /\ child' = [child EXCEPT !.open = @ \ {stream}]
    /\ UNCHANGED <<pc, result, es, now, next_tick, proc, nlines, full, outcome,
                   frontend, final_idx, tvars, sunk>>

\* Mutant of Line: the stream future is polled on after the runner returned.
LineUnguarded(stream) ==
    /\ pc \in {"racing", "done"}
    /\ proc.spawned
    /\ proc[stream] = "open"
    /\ proc.read[stream] < Len(child[stream])
    /\ LET line == child[stream][proc.read[stream] + 1]
           r == append_line(es, line)
       IN  /\ es' = r.self
           /\ full' = full \o Appended(es, line, r)
           /\ pc' = IF r.panic THEN "panicked" ELSE pc
    /\ proc' = [proc EXCEPT !.read[stream] = @ + 1]
    /\ sunk' = Append(sunk, [stream |-> stream, line |-> child[stream][proc.read[stream] + 1]])
    /\ UNCHANGED <<result, now, next_tick, nlines, outcome, frontend, final_idx,
                   child, tvars>>

\* Mutant of Line: the sink gets the line written last.
LineLatest(stream) ==
    /\ pc = "racing"
    /\ proc.spawned
    /\ proc[stream] = "open"
    /\ proc.read[stream] < Len(child[stream])
    /\ LET line == child[stream][Len(child[stream])]
           r == append_line(es, line)
       IN  /\ es' = r.self
           /\ full' = full \o Appended(es, line, r)
           /\ pc' = IF r.panic THEN "panicked" ELSE pc
    /\ proc' = [proc EXCEPT !.read[stream] = @ + 1]
    /\ sunk' = Append(sunk, [stream |-> stream, line |-> child[stream][Len(child[stream])]])
    /\ UNCHANGED <<result, now, next_tick, nlines, outcome, frontend, final_idx,
                   child, tvars>>

\* normal.rs:33-44 with exec.rs:64-68: the next line of stdout or stderr
\* reaches the sink, which appends it under the lock; a panic unwinds the task.
Line(stream) ==
    /\ pc = "racing"
    /\ proc.spawned
    /\ proc[stream] = "open"
    /\ proc.read[stream] < Len(child[stream])
    /\ LET line == child[stream][proc.read[stream] + 1]
           r == append_line(es, line)
       IN  /\ es' = r.self
           /\ full' = full \o Appended(es, line, r)
           /\ pc' = IF r.panic THEN "panicked" ELSE pc
    /\ proc' = [proc EXCEPT !.read[stream] = @ + 1]
    /\ sunk' = Append(sunk, [stream |-> stream, line |-> child[stream][proc.read[stream] + 1]])
    /\ UNCHANGED <<result, now, next_tick, nlines, outcome, frontend, final_idx,
                   child, tvars>>

\* A stream reaches end-of-file: every line written to the pipe has been
\* read and the child holds the write end no more.
Eof(stream) ==
    /\ pc = "racing"
    /\ proc.spawned
    /\ proc[stream] = "open"
    /\ proc.read[stream] = Len(child[stream])
    /\ stream \notin child.open
    /\ proc' = [proc EXCEPT ![stream] = "eof"]
    /\ UNCHANGED <<pc, result, es, now, next_tick, nlines, full, outcome, frontend,
                   final_idx, child, tvars, sunk>>

\* normal.rs:34,40: reading a stream fails with Error::CollectOutput.
ReadError(stream) ==
    /\ pc = "racing"
    /\ proc.spawned
    /\ proc[stream] = "open"
    /\ Abort("CollectOutput")
    /\ UNCHANGED <<now, next_tick, nlines, full, frontend, child, tvars, sunk>>

\* normal.rs:47-50: the child exits, which closes its pipes, and
\* wait_with_output yields its status.
Exit(status) ==
    /\ pc = "racing"
    /\ proc.spawned
    /\ proc.exit = None
    /\ proc' = [proc EXCEPT !.exit = Some(status)]
    /\ child' = [child EXCEPT !.open = {}]
    /\ UNCHANGED <<pc, result, es, now, next_tick, nlines, full, outcome, frontend,
                   final_idx, tvars, sunk>>

\* normal.rs:50: waiting for the child fails with Error::Complete.
WaitError ==
    /\ pc = "racing"
    /\ proc.spawned
    /\ proc.exit = None
    /\ Abort("Complete")
    /\ UNCHANGED <<now, next_tick, nlines, full, frontend, child, tvars, sunk>>

\* Mutant of Resolve: the status is set when the process has exited, before
\* the streams are read to the end.
ResolveEarly ==
    /\ pc = "racing"
    /\ proc.exit # None
    /\ es' = set_status(es, proc.exit[1], now)
    /\ pc' = IF proc.stdout = "eof" /\ proc.stderr = "eof" THEN "flush" ELSE pc
    /\ UNCHANGED <<result, now, next_tick, proc, nlines, full, outcome, frontend,
                   final_idx, child, tvars, sunk>>

\* Mutant of Resolve: an exit status that is no success is an error.
ResolveChecked ==
    /\ pc = "racing"
    /\ proc.exit # None
    /\ proc.stdout = "eof"
    /\ proc.stderr = "eof"
    /\ IF success(proc.exit[1])
       THEN /\ es' = set_status(es, proc.exit[1], now)
            /\ pc' = "flush"
            /\ UNCHANGED <<result, proc>>
       ELSE /\ pc' = "done"
            /\ result' = Err("Execute", "Exit")
            /\ UNCHANGED <<es, proc>>
    /\ UNCHANGED <<now, next_tick, nlines, full, outcome, frontend,
                   final_idx, child, tvars, sunk>>

\* Mutant of Resolve: the race goes on until the ticker has pushed.
ResolveAfterPush ==
    /\ pc = "racing"
    /\ proc.exit # None
    /\ proc.stdout = "eof"
    /\ proc.stderr = "eof"
    /\ es.updated_count > 0
    /\ es' = set_status(es, proc.exit[1], now)
    /\ pc' = "flush"
    /\ UNCHANGED <<result, now, next_tick, proc, nlines, full, outcome, frontend,
                   final_idx, child, tvars, sunk>>

\* Mutant of Resolve: the exit status alone resolves the runner.
ResolveOnExit ==
    /\ pc = "racing"
    /\ proc.exit # None
    /\ es' = set_status(es, proc.exit[1], now)
    /\ pc' = "flush"
    /\ UNCHANGED <<result, now, next_tick, proc, nlines, full, outcome, frontend,
                   final_idx, child, tvars, sunk>>

\* normal.rs:53-55 and exec.rs:69-73: try_join3 resolves, and_then sets the
\* exit status, and try_select ends the race.
Resolve ==
    /\ pc = "racing"
    /\ proc.exit # None
    /\ proc.stdout = "eof"
    /\ proc.stderr = "eof"
    /\ es' = set_status(es, proc.exit[1], now)
    /\ pc' = "flush"
    /\ UNCHANGED <<result, now, next_tick, proc, nlines, full, outcome, frontend,
                   final_idx, child, tvars, sunk>>

\* Mutant of FinalFlush: the final update is throttled.
FinalFlushThrottled ==
    /\ pc = "flush"
    /\ es' = update_throttled(es, now)
    /\ outcome' = telegram_spawn(es')
    /\ final_idx' = IF Len(es'.state) > Len(es.state) THEN Len(es'.state) ELSE 0
    /\ pc' = "done"
    /\ result' = Ok
    /\ UNCHANGED <<now, next_tick, proc, nlines, full, frontend, child, tvars, sunk>>

\* exec.rs:95-98: the final update, then Ok(()).
FinalFlush ==
    /\ pc = "flush"
    /\ es' = update(es, now)
    /\ outcome' = telegram_spawn(es')
    /\ final_idx' = IF Len(es'.state) > Len(es.state) THEN Len(es'.state) ELSE 0
    /\ pc' = "done"
    /\ result' = Ok
    /\ UNCHANGED <<now, next_tick, proc, nlines, full, frontend, child, tvars, sunk>>

\* Time passes while the race is pending.
Advance(d) ==
    /\ pc = "racing"
    /\ now + d <= horizon
    /\ now' = now + d
    /\ UNCHANGED <<pc, result, es, next_tick, proc, nlines, full, outcome, frontend,
                   final_idx, child, tvars, sunk>>

\* Mutant of detached: a failed request is returned as the error of exec_cmd.
surfaced(ctl, ok) ==
    IF ok THEN ctl ELSE [pc |-> "done", result |-> Err("Telegram", "edit")]

\* Mutant of detached: a failed request ends the racing phase.
ending_race(ctl, ok) ==
    IF ok \/ ctl.pc # "racing" THEN ctl ELSE [ctl EXCEPT !.pc = "flush"]

\* state.rs:180-182: the JoinHandle of the spawned task is dropped, so the
\* outcome of the request reaches nobody: position and result of exec_cmd
\* (ctl) stay as they are.
detached(ctl, ok) == ctl

\* state.rs:134-183: a spawned edit request completes; Telegram applied it,
\* or it failed and telegram_send_message only logs the error.
EditDone(i, ok) ==
    /\ i \in 1..Len(outcome)
    /\ outcome[i] = "pending"
    /\ IF ok
       THEN /\ outcome' = [outcome EXCEPT ![i] = "applied"]
            /\ frontend' = es.state[i]
       ELSE /\ outcome' = [outcome EXCEPT ![i] = "failed"]
            /\ UNCHANGED frontend
    /\ LET ctl == detached([pc |-> pc, result |-> result], ok)
       IN  /\ pc' = ctl.pc
           /\ result' = ctl.result
    /\ UNCHANGED <<es, now, next_tick, proc, nlines, full, final_idx, child, tvars, sunk>>

Next ==
    \/ \E reply \in {"message", "empty", "send"} : CreateStatusMsg(reply)
    \/ Tick
    \/ \E ok \in BOOLEAN : Spawn(ok)
    \/ \E s \in Streams : \E l \in Written(s) : Write(s, l)
    \/ \E s \in Streams : Close(s)
    \/ \E s \in Streams : Line(s)
    \/ \E s \in Streams : Eof(s)
    \/ \E s \in Streams : ReadError(s)
    \/ \E st \in ExitStatuses : Exit(st)
    \/ WaitError
    \/ Resolve
    \/ FinalFlush
    \/ \E d \in ClockSteps : Advance(d)
    \/ \E i \in 1..Len(outcome), ok \in BOOLEAN : EditDone(i, ok)

Spec == Init /\ [][Next]_vars

\* exec.rs:89-96: the task that runs exec_cmd is polled again once the
\* command future can resolve, and runs on to the final update.
SpecFair == Spec /\ WF_vars(Resolve) /\ WF_vars(FinalFlush)

----------------------------------------------------------------------------
(* The throttle table: throttle_secs evaluated at every updated_count up   *)
(* to MaxCount, as a status that has pushed that many times computes it.   *)

Pushed(count) == [new(0) EXCEPT !.updated_count = count]

TableInit ==
    /\ pc = "table"
    /\ result = [tag |-> "none", cause |-> ""]
    /\ es = new(0)
    /\ now = 0
    /\ next_tick = None
    /\ proc = NoProc
    /\ nlines = 0
    /\ full = <<>>
    /\ outcome = <<>>
    /\ frontend = NoMessage
    /\ final_idx = 0
    /\ tcount \in 0..MaxCount
    /\ toffset \in {0, 1}
    /\ tsecs = 0
    /\ child = NoChild
    /\ horizon = 0
    /\ call = NoCall
    /\ sunk = <<>>
    /\ sync = NoSync
    /\ dirty_at = 0
    /\ invoked = NotInvoked

\* throttle_secs(offset) of a status with updated_count = tcount
Evaluate ==
    /\ pc = "table"
    /\ tsecs = 0
    /\ tsecs' = throttle_secs(Pushed(tcount), toffset)
    /\ UNCHANGED <<pc, result, es, now, next_tick, proc, nlines, full, outcome,
                   frontend, final_idx, tcount, toffset, child, horizon, call, sunk, sync,
                   dirty_at, invoked>>

\* one more push (updated_count += 1), and throttle_secs again
Recount ==
    /\ pc = "table"
    /\ tsecs # 0
    /\ tcount < MaxCount
    /\ tcount' = tcount + 1
    /\ tsecs' = throttle_secs(Pushed(tcount + 1), toffset)
    /\ UNCHANGED <<pc, result, es, now, next_tick, proc, nlines, full, outcome,
                   frontend, final_idx, toffset, child, horizon, call, sunk, sync,
                   dirty_at, invoked>>

TableNext == Evaluate \/ Recount

SpecThrottle == TableInit /\ [][TableNext]_vars

----------------------------------------------------------------------------
(* ExecStatus on its own: its methods called in any order, on a status that
   has made some pushes, with the system clock stepping between the calls *)

\* The variables no method of ExecStatus touches.
ovars == <<pc, result, next_tick, proc, nlines, full, frontend, final_idx,
           tcount, toffset, tsecs, child, horizon, sunk, sync, dirty_at, invoked>>

\* The lines appended, the time waited since the last push, the clock steps
\* (SystemTime may step backwards).
ObjectLines == {<<>>, <<"a">>}
Waits == {0} \cup {s * 1000 - SLACK_MS - d : s \in {1, 3, 5, 10}, d \in {0, SLACK_MS}}
ObjectSteps == {0 - TICK_MS, TICK_MS, EXEC_TIMEOUT - EXEC_TIMEOUT_PRECISION}

\* A status after k pushes by the ticker, a line appended before each, ten
\* ticks apart.
RECURSIVE AfterPushes(_)
AfterPushes(k) ==
    IF k = 0 THEN new(0)
    ELSE update_throttled(append_line(AfterPushes(k - 1), <<"a">>).self,
                          10 * TICK_MS * k)

ObjectInit ==
    /\ pc = "object"
    /\ result = [tag |-> "none", cause |-> ""]
    /\ \E k \in 0..MaxPushes, wait \in Waits :
          /\ es = AfterPushes(k)
          /\ now = 10 * TICK_MS * k + wait
          /\ outcome = [i \in 1..k |-> "pending"]
    /\ next_tick = None
    /\ proc = NoProc
    /\ nlines = 0
    /\ full = <<>>
    /\ frontend = InitialMessage
    /\ final_idx = 0
    /\ tcount = 0
    /\ toffset = 0
    /\ tsecs = 0
    /\ child = NoChild
    /\ horizon = 0
    /\ call = NoCall
    /\ sunk = <<>>
    /\ sync = NoSync
    /\ dirty_at = 0
    /\ invoked = NotInvoked

Called(op, arg) ==
    /\ pc = "object"
    /\ call.n < MaxCalls
    /\ call' = [n |-> call.n + 1, op |-> op, arg |-> arg]

\* exec.rs:266-271
CallAppendLine(line) ==
    /\ Called("append_line", None)
    /\ es' = append_line(es, line).self
    /\ UNCHANGED <<now, outcome, ovars>>

\* exec.rs:274-283
CallSetStatus(status) ==
    /\ Called("set_status", status)
    /\ es' = set_status(es, status, now)
    /\ UNCHANGED <<now, outcome, ovars>>

\* exec.rs:394-402
CallUpdate ==
    /\ Called("update", None)
    /\ es' = update(es, now)
    /\ outcome' = telegram_spawn(es')
    /\ UNCHANGED <<now, ovars>>

\* exec.rs:408-418
CallUpdateThrottled ==
    /\ Called("update_throttled", None)
    /\ es' = update_throttled(es, now)
    /\ outcome' = telegram_spawn(es')
    /\ UNCHANGED <<now, ovars>>

\* The system clock steps between two calls.
Sleep(d) ==
    /\ Called("sleep", None)
    /\ now' = now + d
    /\ UNCHANGED <<es, outcome, ovars>>

ObjectNext ==
    \/ \E l \in ObjectLines : CallAppendLine(l)
    \/ \E st \in ExitStatuses : CallSetStatus(st)
    \/ CallUpdate
    \/ CallUpdateThrottled
    \/ \E d \in ObjectSteps : Sleep(d)

SpecObject == ObjectInit /\ [][ObjectNext]_vars

----------------------------------------------------------------------------
(* execute_sync (isolated.rs:62-79): the runner with a sink that collects
   the lines in a shared buffer.  pc = "racing" while normal::execute is in
   flight; the child and the joined futures are those of exec_cmd. *)

\* The variables execute_sync does not touch.
svars == <<es, now, next_tick, full, outcome, frontend, final_idx,
           tcount, toffset, tsecs, horizon, call, dirty_at, invoked>>

SyncInit ==
    /\ pc = "racing"
    /\ result = [tag |-> "none", cause |-> ""]
    /\ es = new(0)
    /\ now = 0
    /\ next_tick = None
    /\ proc = NoProc
    /\ nlines = 0
    /\ full = <<>>
    /\ outcome = <<>>
    /\ frontend = NoMessage
    /\ final_idx = 0
    /\ tcount = 0
    /\ toffset = 0
    /\ tsecs = 0
    /\ child = NoChild
    /\ horizon = 0
    /\ call = NoCall
    /\ sunk = <<>>
    /\ sync = NoSync
    /\ dirty_at = 0
    /\ invoked = NotInvoked

\* Mutant of push_str: the buffer keeps its last OUTPUT_TRUNCATE bytes.
push_str_bounded(buf, out) ==
    IF Len(buf \o out) <= OUTPUT_TRUNCATE THEN buf \o out
    ELSE SubSeq(buf \o out, Len(buf \o out) - OUTPUT_TRUNCATE + 1, Len(buf \o out))

\* isolated.rs:72: String::push_str
push_str(buf, out) == buf \o out

\* `.await?`: execute_sync returns the runner's error.
SyncAbort(cause) ==
    /\ pc' = "done"
    /\ result' = Err(cause, "")
    /\ proc' = [proc EXCEPT !.error = Some(cause)]

\* normal.rs:20-26
SyncSpawn(ok) ==
    /\ pc = "racing"
    /\ ~proc.spawned
    /\ IF ok
       THEN /\ proc' = [proc EXCEPT !.spawned = TRUE]
            /\ UNCHANGED <<pc, result>>
       ELSE SyncAbort("Spawn")
    /\ UNCHANGED <<nlines, child, sunk, sync, svars>>

\* normal.rs:33-44 with isolated.rs:71-74: the next line of stdout or stderr
\* reaches the sink, which pushes it onto the buffer.
SyncLine(stream) ==
    /\ pc = "racing"
    /\ proc.spawned
    /\ proc[stream] = "open"
    /\ proc.read[stream] < Len(child[stream])
    /\ LET line == child[stream][proc.read[stream] + 1]
       IN  /\ sync' = [sync EXCEPT !.buf = push_str(@, line)]
           /\ sunk' = Append(sunk, [stream |-> stream, line |-> line])
    /\ proc' = [proc EXCEPT !.read[stream] = @ + 1]
    /\ UNCHANGED <<pc, result, nlines, child, svars>>

\* normal.rs:34,40
SyncReadError(stream) ==
    /\ pc = "racing"
    /\ proc.spawned
    /\ proc[stream] = "open"
    /\ SyncAbort("CollectOutput")
    /\ UNCHANGED <<nlines, child, sunk, sync, svars>>

\* normal.rs:50
SyncWaitError ==
    /\ pc = "racing"
    /\ proc.spawned
    /\ proc.exit = None
    /\ SyncAbort("Complete")
    /\ UNCHANGED <<nlines, child, sunk, sync, svars>>

\* normal.rs:53-55 and isolated.rs:75-78: try_join3 resolves with the exit
\* status; the buffer is copied and returned with it.
SyncResolve ==
    /\ pc = "racing"
    /\ proc.exit # None
    /\ proc.stdout = "eof"
    /\ proc.stderr = "eof"
    /\ sync' = [sync EXCEPT !.status = proc.exit]
    /\ pc' = "done"
    /\ result' = Ok
    /\ UNCHANGED <<proc, nlines, child, sunk, svars>>

SyncNext ==
    \/ \E ok \in BOOLEAN : SyncSpawn(ok)
    \/ \E s \in Streams : \E l \in Written(s) : Write(s, l)
    \/ \E s \in Streams : Close(s)
    \/ \E s \in Streams : SyncLine(s)
    \/ \E s \in Streams : Eof(s)
    \/ \E s \in Streams : SyncReadError(s)
    \/ \E st \in ExitStatuses : Exit(st)
    \/ SyncWaitError
    \/ SyncResolve

SpecSync == SyncInit /\ [][SyncNext]_vars

----------------------------------------------------------------------------
(* The ticker on time: a command that keeps running prints lines while the
   interval fires within Jitter of each deadline.  The status has made some
   pushes before, the last one by a tick that was on time or late. *)

Jitter == 2 * SLACK_MS
TickerSteps == {Jitter, TICK_MS - Jitter}

TickerInit ==
    /\ pc = "racing"
    /\ result = [tag |-> "none", cause |-> ""]
    /\ \E k \in 0..MaxPushes, late \in {0, Jitter} :
          /\ k = 0 => late = 0
          /\ es = AfterPushes(k)
          /\ now = 10 * TICK_MS * k
          /\ next_tick = Some(10 * TICK_MS * k - late + TICK_MS)
          /\ outcome = [i \in 1..k |-> "pending"]
          /\ horizon = 10 * TICK_MS * k + (throttle_secs(AfterPushes(k), 0) + 2) * TICK_MS
    /\ proc = [NoProc EXCEPT !.spawned = TRUE]
    /\ nlines = 0
    /\ full = <<>>
    /\ frontend = InitialMessage
    /\ final_idx = 0
    /\ tcount = 0
    /\ toffset = 0
    /\ tsecs = 0
    /\ child = NoChild
    /\ call = NoCall
    /\ sunk = <<>>
    /\ sync = NoSync
    /\ dirty_at = 0
    /\ invoked = NotInvoked

\* exec.rs:64-68: the sink appends a line the running command printed.
TickerAppend(line) ==
    /\ pc = "racing"
    /\ nlines < MaxLines
    /\ es' = append_line(es, line).self
    /\ nlines' = nlines + 1
    /\ dirty_at' = IF ~es.changed /\ es'.changed THEN now ELSE dirty_at
    /\ UNCHANGED <<pc, result, now, next_tick, proc, full, outcome, frontend, final_idx,
                   tcount, toffset, tsecs, child, horizon, call, sunk, sync, invoked>>

\* exec.rs:78: time passes, never beyond Jitter after the deadline of a tick.
TickerAdvance(d) ==
    /\ pc = "racing"
    /\ now + d <= horizon
    /\ now + d <= next_tick[1] + Jitter
    /\ now' = now + d
    /\ UNCHANGED <<pc, result, es, next_tick, proc, nlines, full, outcome, frontend,
                   final_idx, child, tvars, sunk>>

TickerNext ==
    \/ Tick
    \/ \E l \in ObjectLines : TickerAppend(l)
    \/ \E d \in TickerSteps : TickerAdvance(d)

SpecTicker == TickerInit /\ [][TickerNext]_vars

----------------------------------------------------------------------------
(* invoke: the exec action is handed a message, takes the command out of
   its text and either replies with the usage help or runs exec_cmd. *)

SP == " "
White == {SP, NL}
Name == <<"/", "e", "x", "e", "c">>

\* The texts of the messages the action is invoked with.
InvokeData ==
    { Name,
      Name \o <<SP>>,
      Name \o <<SP, SP>>,
      Name \o <<NL>>,
      Name \o <<NL, SP, NL>>,
      Name \o <<NL, "a">>,
      Name \o <<SP, SP, "a">> }

\* str::splitn(2, ' '): the text before the first space and the text after
\* it, or the whole text when it holds no space.
splitn2(data) ==
    IF \E i \in DOMAIN data : data[i] = SP
    THEN LET i == CHOOSE i \in DOMAIN data :
                     /\ data[i] = SP
                     /\ \A j \in 1..(i - 1) : data[j] # SP
         IN  <<SubSeq(data, 1, i - 1), SubSeq(data, i + 1, Len(data))>>
    ELSE <<data>>

\* Iterator::nth(1): the second item, if any.
nth1(parts) == IF Len(parts) >= 2 THEN Some(parts[2]) ELSE None

RECURSIVE trim_start(_)
trim_start(s) ==
    IF s # <<>> /\ s[1] \in White THEN trim_start(Tail(s)) ELSE s

RECURSIVE trim_end(_)
trim_end(s) ==
    IF s # <<>> /\ s[Len(s)] \in White THEN trim_end(SubSeq(s, 1, Len(s) - 1)) ELSE s

trim(s) == trim_end(trim_start(s))

\* exec.rs:121-126: the command to run in the shell.
command(data) ==
    LET second == nth1(splitn2(data))
    IN  IF second = None THEN <<>> ELSE trim_start(second[1])

InvokeInit ==
    /\ pc = "invoke"
    /\ result = [tag |-> "none", cause |-> ""]
    /\ es = new(0)
    /\ now = 0
    /\ next_tick = None
    /\ proc = NoProc
    /\ nlines = 0
    /\ full = <<>>
    /\ outcome = <<>>
    /\ frontend = NoMessage
    /\ final_idx = 0
    /\ tcount = 0
    /\ toffset = 0
    /\ tsecs = 0
    /\ child = NoChild
    /\ horizon = MaxTime
    /\ call = NoCall
    /\ sunk = <<>>
    /\ sync = NoSync
    /\ dirty_at = 0
    /\ \E data \in {None} \cup {Some(d) : d \in InvokeData} :
          invoked = [NotInvoked EXCEPT !.data = data]

\* Mutant of Invoke: the command is run without the check for an empty one.
InvokeUnchecked(sent) ==
    /\ pc = "invoke"
    /\ IF invoked.data = None
       THEN /\ pc' = "done"
            /\ result' = Ok
            /\ UNCHANGED invoked
       ELSE /\ invoked' = [invoked EXCEPT !.cmd = command(invoked.data[1])]
            /\ pc' = "start"
            /\ UNCHANGED result
    /\ UNCHANGED <<es, now, next_tick, proc, nlines, full, outcome, frontend, final_idx,
                   tcount, toffset, tsecs, child, horizon, call, sunk, sync, dirty_at>>

\* exec.rs:117-158: a message that is no text is ignored; an empty command
\* gets the help reply, whose failure is Error::Help; any other command is
\* handed to exec_cmd.
Invoke(sent) ==
    /\ pc = "invoke"
    /\ IF invoked.data = None
       THEN /\ pc' = "done"
            /\ result' = Ok
            /\ UNCHANGED invoked
       ELSE LET cmd == command(invoked.data[1])
            IN  IF trim(cmd) = <<>>
                THEN /\ invoked' = [invoked EXCEPT
                                       !.cmd = cmd,
                                       !.help = IF sent THEN "sent" ELSE "failed"]
                     /\ pc' = "done"
                     /\ result' = IF sent THEN Ok ELSE Err("Help", "send")
                ELSE /\ invoked' = [invoked EXCEPT !.cmd = cmd]
                     /\ pc' = "start"
                     /\ UNCHANGED result
    /\ UNCHANGED <<es, now, next_tick, proc, nlines, full, outcome, frontend, final_idx,
                   tcount, toffset, tsecs, child, horizon, call, sunk, sync, dirty_at>>

InvokeNext ==
    \/ \E sent \in BOOLEAN : Invoke(sent)
    \/ Next

SpecInvoke == InvokeInit /\ [][InvokeNext]_vars

----------------------------------------------------------------------------
(* Properties *)

\* The last n bytes of s, all of s when it is shorter.
Suffix(s, n) == IF Len(s) <= n THEN s ELSE SubSeq(s, Len(s) - n + 1, Len(s))

Returned(tag) == pc = "done" /\ result.tag = tag

\* A message rendered of a completed status.
OfCompleted(msg) == msg.emoji \in {"check", "cross"}

\* C1: after every append / append_line the output is at most
\* OUTPUT_TRUNCATE bytes long and is exactly the longest such suffix of the
\* untruncated concatenation of everything appended.
C1_BoundedSuffix ==
    /\ Len(es.output) <= OUTPUT_TRUNCATE
    /\ es.output = Suffix(full, OUTPUT_TRUNCATE)

\* C2: when the runner resolved successfully, exactly one push was made after
\* the race ended, whatever the time since the previous push: the last
\* spawned request is the one of the final update, it renders the completed
\* status, and no request before it does.
C2_OneFinalPush ==
    Returned("Ok") =>
        /\ final_idx >= 1
        /\ final_idx = Len(es.state)
        /\ es.updated_count = Len(es.state)
        /\ OfCompleted(es.state[final_idx])
        /\ es.state[final_idx].literal # PLACEHOLDER
        /\ \A i \in 1..(final_idx - 1) : ~OfCompleted(es.state[i])
        /\ ~es.changed

\* C2 witness: the final push follows a ticker push by less than the
\* throttle floor (the first ticker push is at least 950 ms after creation).
C2_Witness ==
    /\ Returned("Ok")
    /\ final_idx = 2
    /\ es.changed_at < es.started_at + 2 * (TICK_MS - SLACK_MS)

AllCompleted == \A i \in 1..Len(outcome) : outcome[i] # "pending"

\* C3: after a successful run, once every spawned edit has completed, the
\* frontend shows the text of the final flush (here: whenever that edit was
\* applied at all).
C3_FinalTextShown ==
    (Returned("Ok") /\ final_idx >= 1 /\ AllCompleted
        /\ outcome[final_idx] = "applied")
    => frontend = es.state[final_idx]

\* C4 as claimed: exec_cmd returns only after the edit of the final flush
\* has completed.
C4_ReturnsAfterFinalEdit ==
    (Returned("Ok") /\ final_idx >= 1) => outcome[final_idx] # "pending"

\* C4 amended: exec_cmd returns as soon as the final update has spawned its
\* edit request: at the moment of return that request is still pending.
C4_ReturnsOnceSpawned ==
    [][(pc = "flush" /\ pc' # "flush") =>
          /\ pc' = "done"
          /\ result' = Ok
          /\ final_idx' = Len(outcome')
          /\ final_idx' = Len(outcome) + 1
          /\ outcome'[final_idx'] = "pending"]_vars

C4_Witness ==
    /\ Returned("Ok")
    /\ final_idx >= 1
    /\ outcome[final_idx] = "pending"

\* C5 as claimed: a failed edit of the final flush makes exec_cmd return an
\* error.
C5_FinalFailureSurfaced ==
    (final_idx >= 1 /\ outcome[final_idx] = "failed") => result.tag # "Ok"

\* C5 amended: a failed edit of the final flush is not surfaced: exec_cmd
\* has returned Ok and that stays its result.
C5_FinalFailureIgnored ==
    (final_idx >= 1 /\ outcome[final_idx] = "failed") => Returned("Ok")

C5_Witness ==
    /\ final_idx >= 1
    /\ outcome[final_idx] = "failed"
    /\ Returned("Ok")

\* Some spawned edit request fails in this step.
EditFails == \E i \in 1..Len(outcome) : outcome[i] = "pending" /\ outcome'[i] = "failed"

\* C6: a failing edit of a throttled push neither ends the racing phase nor
\* changes the result of exec_cmd or the status; the run still ends with the
\* final flush.
C6_ThrottledFailureIgnored ==
    /\ [][EditFails => (pc' = pc /\ result' = result /\ es' = es /\ proc' = proc
                        /\ next_tick' = next_tick)]_vars
    /\ [](Returned("Ok") => final_idx = Len(es.state) /\ final_idx >= 1)

\* C6 witness: the edit of the first ticker push failed, a later tick pushed
\* again and the final flush was made.
C6_Witness ==
    /\ Returned("Ok")
    /\ final_idx = 3
    /\ outcome[1] = "failed"

\* C7: when the runner fails, exec_cmd returns Error::Execute with the
\* runner's error, the exit status is never set and no final flush is made.
C7_RunnerFailure ==
    /\ proc.error # None =>
          /\ Returned("Execute")
          /\ result.cause = proc.error[1]
          /\ es.status = None
          /\ es.completion_duration = None
          /\ final_idx = 0
          /\ \A i \in 1..Len(es.state) : ~OfCompleted(es.state[i])
    /\ result.tag = "Execute" => proc.error # None

\* C7 witness: a stream read failed while an appended line was still unpushed.
C7_Witness ==
    /\ proc.error = Some("CollectOutput")
    /\ es.changed
    /\ Returned("Execute")

\* C8 as claimed: after an abort by a failed spawn or a failed stream read
\* no edit has been dispatched and the frontend shows the placeholder.
C8_PlaceholderRemains ==
    (proc.error # None /\ proc.error[1] \in {"Spawn", "CollectOutput"})
    => (es.state = <<>> /\ frontend = InitialMessage)

\* C8 amended: after an abort by a failed spawn no edit has been dispatched
\* and the frontend shows the placeholder; after an abort by a failed stream
\* read no final flush has been dispatched, only edits of ticker pushes made
\* before the failure.
C8_PlaceholderAfterSpawnFailure ==
    /\ proc.error = Some("Spawn") => (es.state = <<>> /\ frontend = InitialMessage)
    /\ proc.error = Some("CollectOutput") =>
          /\ final_idx = 0
          /\ es.updated_count = Len(es.state)
          /\ \A i \in 1..Len(es.state) : es.state[i].emoji = "hourglass"

\* C8 witness: a stream read failed after a ticker push whose edit was applied.
C8_Witness ==
    /\ proc.error = Some("CollectOutput")
    /\ Len(es.state) >= 1
    /\ frontend # InitialMessage

\* C9: when the initial status message is not sent or the response is empty,
\* exec_cmd returns Error::StatusMessage, and no process is spawned, no ticker
\* is started and no edit is dispatched.
C9_NoStatusMessage ==
    (pc # "start" /\ frontend = NoMessage) =>
        /\ Returned("StatusMessage")
        /\ ~proc.spawned
        /\ proc = NoProc
        /\ next_tick = None
        /\ es.state = <<>>
        /\ outcome = <<>>

C9_Witness == Returned("StatusMessage") /\ result.cause = "empty"

\* C10: throttle_secs(0) is 1 for counts 0 and 1, 3 for 2 to 4, 5 for 5 to 7
\* and 10 from 8 on, and never decreases when the count grows.
C10_ThrottleTable ==
    (tsecs # 0 /\ toffset = 0) =>
        /\ tcount \in 0..1 => tsecs = 1
        /\ tcount \in 2..4 => tsecs = 3
        /\ tcount \in 5..7 => tsecs = 5
        /\ tcount >= 8 => tsecs = 10
        /\ \A c \in 0..tcount : throttle_secs(Pushed(c), 0) <= tsecs

C10_Witness == tsecs = 10 /\ tcount = MaxCount /\ toffset = 0

\* A step of the ticker or of the final update.
TickStep == next_tick # None /\ next_tick' # next_tick
FlushStep == pc = "flush" /\ pc' = "done"

\* A call of update_throttled: by the ticker, or on the status directly.
ThrottledCall ==
    \/ TickStep
    \/ call'.n # call.n /\ call'.op = "update_throttled"

\* The least time between two pushes of update_throttled, in milliseconds.
Floor(count) ==
    IF count < 2 THEN 950
    ELSE IF count < 5 THEN 2950
    ELSE IF count < 8 THEN 4950
    ELSE 9950

\* C11 as stated: update_throttled pushes nothing when the time since the
\* last push is less than the throttle delay at updated_count + 1 minus
\* 50 ms, and else behaves as update().
C11_ThrottledAtNextCount ==
    [][ThrottledCall =>
           es' = IF now - es.changed_at < Floor(es.updated_count + 1)
                 THEN es ELSE update(es, now)]_vars

\* C11 amended: update_throttled pushes nothing when the time since the last
\* push is less than the throttle delay at the current updated_count
\* (offset 0) minus 50 ms, and else behaves as update().
C11_ThrottledAtCurrentCount ==
    [][ThrottledCall =>
           es' = IF now - es.changed_at < Floor(es.updated_count)
                 THEN es ELSE update(es, now)]_vars

\* C11 witness: the second push, made by update_throttled 950 ms after the
\* first one, sooner than the delay at offset 1.
C11_Witness ==
    /\ call.op = "update_throttled"
    /\ es.updated_count = 2
    /\ es.changed_at = now
    /\ now = 10 * TICK_MS + Floor(1)

\* C12: every push made by the ticker comes at least the throttle delay of
\* the current updated_count minus 50 ms after the previous push, or after
\* creation when nothing was pushed: never less than 950 ms.
C12_PushFloor ==
    /\ [][ThrottledCall /\ Len(es'.state) > Len(es.state) =>
            /\ now - es.changed_at >= Floor(es.updated_count)
            /\ now - es.changed_at >= 950
            /\ es.updated_count = 0 => now - es.started_at >= 950]_vars
    /\ [][Len(es'.state) > Len(es.state) => es'.changed_at = now]_vars
    /\ [](es.updated_count = 0 => es.changed_at = es.started_at)

\* C12 witness: the first push, made by update_throttled exactly 950 ms
\* after creation.
C12_Witness ==
    /\ call.op = "update_throttled"
    /\ es.updated_count = 1
    /\ es.changed_at = es.started_at + TICK_MS - SLACK_MS
    /\ es.changed_at = now

\* C17: set_status with the status already stored leaves the changed flag
\* as it is; with another status, the first one included, it sets the flag.
C17_SameStatusKeepsFlag ==
    [][call'.n # call.n /\ call'.op = "set_status" =>
           IF es.status = Some(call'.arg)
           THEN es'.changed = es.changed
           ELSE es'.changed]_vars

\* C17 witness: set_status was called with the stored status after a push.
C17_Witness ==
    /\ call.op = "set_status"
    /\ es.updated_count > 0
    /\ ~es.changed

HasLabel(msg, name) == \E i \in DOMAIN msg.labels : msg.labels[i].name = name

\* C18: the rendered status has the "timed out" label exactly when the exit
\* code is 124 and the completion duration is unknown or at least 299 s;
\* no status rendered before completion has it.
C18_TimedOutLabel ==
    /\ HasLabel(build_status_msg(es), "timed out") <=>
          /\ es.status # None
          /\ es.status[1].code = Some(124)
          /\ \/ es.completion_duration = None
             \/ es.completion_duration[1] >= 299000
    /\ \A i \in DOMAIN es.state :
          HasLabel(es.state[i], "timed out") => OfCompleted(es.state[i])

\* C18 witness: exit code 124 set while the clock was behind the start time.
C18_Witness ==
    /\ call.op = "set_status"
    /\ es.completion_duration = None
    /\ HasLabel(build_status_msg(es), "timed out")
    /\ ~HasLabel(build_status_msg(es), "took")

\* C19: while the command has not completed and the output is empty,
\* build_status_msg gives the text of the initial status message.
C19_Placeholder ==
    (~completed(es) /\ es.output = <<>>) => build_status_msg(es) = InitialMessage

\* C19 witness: update_throttled called on an empty status 299 s after
\* its creation.
C19_Witness ==
    /\ call.op = "update_throttled"
    /\ now - es.started_at >= EXEC_TIMEOUT - EXEC_TIMEOUT_PRECISION
    /\ ~completed(es)
    /\ es.output = <<>>
    /\ build_status_msg(es) = InitialMessage

\* C13: update() on a status that is not changed changes nothing: no edit is
\* dispatched, and the whole status (output, exit status, updated_count,
\* changed_at, changed) stays as it is.
C13_UpdateCleanNoop ==
    [][((TickStep \/ FlushStep) /\ ~es.changed) =>
           (es' = es /\ outcome' = outcome /\ frontend' = frontend)]_vars

\* C13 witness: the second tick came at least 950 ms after creation, so that
\* update_throttled called update(), on a status never changed.
C13_Witness ==
    /\ pc = "racing"
    /\ next_tick = Some(es.started_at + 2 * TICK_MS)
    /\ es.updated_count = 0
    /\ ~es.changed
    /\ es.output = <<>>

\* C14: updated_count never decreases, grows by exactly 1 with each edit
\* request dispatched and with nothing else, and so equals their number.
C14_CountsPushes ==
    /\ [](es.updated_count = Len(es.state) /\ Len(outcome) = Len(es.state))
    /\ [][/\ es'.updated_count - es.updated_count = Len(es'.state) - Len(es.state)
          /\ es'.updated_count - es.updated_count \in {0, 1}
          /\ SubSeq(es'.state, 1, Len(es.state)) = es.state]_vars

C14_Witness == es.updated_count = 3 /\ Len(outcome) = 3

\* C15: the exit status, once set, never changes or reverts; it is set, to
\* the status the runner resolved with, exactly when the runner resolved,
\* and stays unset when the runner failed.
C15_StatusSetOnce ==
    /\ [][es.status # None => es'.status = es.status]_vars
    /\ [](pc \in {"flush", "done"} /\ result.tag \in {"none", "Ok"} /\ pc # "start"
            => es.status = proc.exit /\ proc.exit # None)
    /\ [](pc \in {"racing", "panicked"} \/ proc.error # None => es.status = None)

C15_Witness == Returned("Ok") /\ es.status = Some([code |-> Some(124)])

\* The output and exit status rendered by the last push; the initial empty
\* output and unset status when nothing was pushed.
LastPushed ==
    IF es.state = <<>> THEN build_status_msg(new(0))
    ELSE es.state[Len(es.state)]

\* What a push of the current status would render of output and status.
Differs ==
    LET cur == build_status_msg(es)
    IN  \/ cur.block # LastPushed.block
        \/ cur.emoji # LastPushed.emoji
        \/ cur.notice # LastPushed.notice

\* C16: whenever the output or the exit status differs from what the last
\* push rendered, the changed flag is set; only a push clears it.
C16_ChangedWhenDiffers ==
    /\ [](Differs => es.changed)
    /\ [][(es.changed /\ ~es'.changed) => Len(es'.state) = Len(es.state) + 1]_vars

\* C20: the runner resolves with Ok only after the process has exited and
\* both streams were read to end-of-file: every line the child wrote has
\* been passed to the sink.
C20_ResolvesWhenDrained ==
    es.status # None =>
        /\ proc.exit # None
        /\ proc.stdout = "eof" /\ proc.stderr = "eof"
        /\ \A s \in Streams : proc.read[s] = Len(child[s])
        /\ nlines = proc.read.stdout + proc.read.stderr

C20_Witness ==
    /\ es.status # None
    /\ proc.read.stdout = 1
    /\ proc.read.stderr = 1

\* C21: when reading a stream or waiting for the process fails, the runner
\* returns that error at once, whatever the state of the other two futures,
\* and the sink is not invoked afterwards.
C21_ErrorReturnsAtOnce ==
    /\ [](proc.error # None =>
            /\ pc = "done"
            /\ result = Err("Execute", proc.error[1]))
    /\ [][proc.error # None =>
            /\ sunk' = sunk
            /\ proc' = proc
            /\ es'.output = es.output]_vars

\* C21 witness: a read error was returned while the process had not exited
\* and a written line was still unread.
C21_Witness ==
    /\ proc.error = Some("CollectOutput")
    /\ proc.exit = None
    /\ \E s \in Streams : proc[s] = "open" /\ proc.read[s] < Len(child[s])
    /\ sunk # <<>>

\* The lines the sink got from one stream, in the order it got them.
RECURSIVE Received(_, _)
Received(calls, stream) ==
    IF calls = <<>> THEN <<>>
    ELSE IF calls[1].stream = stream
         THEN <<calls[1].line>> \o Received(Tail(calls), stream)
         ELSE Received(Tail(calls), stream)

\* C22: of each stream, the sink gets every line once and in the order the
\* lines were written: what it got is what was written up to the line read
\* last, all of it at end-of-file.
C22_LinesInOrder ==
    \A s \in Streams :
        /\ Received(sunk, s) = SubSeq(child[s], 1, proc.read[s])
        /\ proc.read[s] <= Len(child[s])
        /\ proc[s] = "eof" => Received(sunk, s) = child[s]

\* C22 witness: both streams read to the end, two different lines of stdout
\* passed to the sink.
C22_Witness ==
    /\ proc.stdout = "eof"
    /\ proc.stderr = "eof"
    /\ Len(Received(sunk, "stdout")) = 2
    /\ sunk[1].line # sunk[2].line

\* C23: when spawning the child fails the runner returns Error::Spawn, the
\* sink was never invoked, and no edit of the status message was ever
\* dispatched: it shows the placeholder.
C23_SpawnFailure ==
    (result.tag = "Execute" /\ result.cause = "Spawn") =>
        /\ pc = "done"
        /\ ~proc.spawned
        /\ sunk = <<>>
        /\ es.output = <<>>
        /\ outcome = <<>>
        /\ es.state = <<>>
        /\ frontend = InitialMessage

\* C23 witness: the spawn failed after the first tick.
C23_Witness == Returned("Execute") /\ result.cause = "Spawn" /\ next_tick # None

\* The lines joined with newlines, and joined with nothing.
RECURSIVE Joined(_)
Joined(calls) ==
    IF calls = <<>> THEN <<>>
    ELSE IF Len(calls) = 1 THEN calls[1].line
    ELSE calls[1].line \o <<NL>> \o Joined(Tail(calls))

RECURSIVE Concatenated(_)
Concatenated(calls) ==
    IF calls = <<>> THEN <<>> ELSE calls[1].line \o Concatenated(Tail(calls))

\* C24: the text execute_sync returns is the received lines joined with
\* newlines, in arrival order.
C24_JoinedWithNewlines ==
    sync.status # None => sync.buf = Joined(sunk)

\* C25: execute_sync returns the exit status the runner resolved with, and
\* a buffer with the content of every line written to stdout and stderr,
\* no byte dropped.
C25_EveryLineKept ==
    sync.status # None =>
        /\ Returned("Ok")
        /\ sync.status = proc.exit
        /\ sync.buf = Concatenated(sunk)
        /\ \A s \in Streams : Received(sunk, s) = child[s]

\* C25 witness: lines of both streams, more bytes than the budget of the
\* status message.
C25_Witness ==
    /\ sync.status # None
    /\ Received(sunk, "stdout") # <<>>
    /\ Received(sunk, "stderr") # <<>>
    /\ Len(sync.buf) > OUTPUT_TRUNCATE

\* The text of the final flush.
FinalText == es.state[final_idx]

C27_LongRunTruncated ==
    (Returned("Ok") /\ Len(full) > OUTPUT_TRUNCATE)
    => /\ final_idx >= 1
       /\ HasLabel(FinalText, "truncated")
       /\ ~HasLabel(FinalText, "truncating")
       /\ FinalText.prefix = "[truncated] "
       /\ FinalText.literal = ""
       /\ FinalText.block = encode_minimal(Suffix(full, OUTPUT_TRUNCATE))

\* C27 witness: a completed run whose output was cut.
C27_Witness ==
    /\ Returned("Ok")
    /\ Len(full) > OUTPUT_TRUNCATE
    /\ es.output = Suffix(full, OUTPUT_TRUNCATE)
    /\ HasLabel(FinalText, "truncated")

Pending == \E i \in 1..Len(outcome) : outcome[i] = "pending"

\* C28: a push ends with its edit request handed to a task of its own and
\* still in flight, and while edits are in flight the sink can append the
\* next line and the completion handler can set the status.
C28_EditsOffTheLock ==
    /\ [][Len(es'.state) > Len(es.state) =>
            /\ Len(outcome') = Len(es'.state)
            /\ outcome'[Len(outcome')] = "pending"
            /\ frontend' = frontend]_vars
    /\ [](\A s \in Streams :
            (/\ Pending /\ pc = "racing" /\ proc.spawned /\ proc[s] = "open"
             /\ proc.read[s] < Len(child[s]))
            => ENABLED Line(s))
    /\ []((/\ Pending /\ pc = "racing" /\ proc.exit # None
           /\ proc.stdout = "eof" /\ proc.stderr = "eof")
          => ENABLED Resolve)

\* C28 witness: a line was appended after a push whose edit is in flight.
C28_Witness ==
    /\ pc = "racing"
    /\ es.updated_count >= 1
    /\ outcome[Len(outcome)] = "pending"
    /\ es.changed

\* The status after the first n calls of the sink, each a whole append_line.
RECURSIVE Whole(_)
Whole(n) ==
    IF n = 0 THEN new(0)
    ELSE append_line(Whole(n - 1), sunk[n].line).self

\* C29: every text pushed renders the output as it is after a whole number
\* of append_line calls, and a text that shows an exit status renders the
\* output with every line the sink got.
C29_WholeOperations ==
    /\ es.output = Whole(Len(sunk)).output
    /\ \A i \in 1..Len(es.state) :
          /\ \E n \in 0..Len(sunk) :
                es.state[i].block = encode_minimal(Whole(n).output)
          /\ OfCompleted(es.state[i]) =>
                es.state[i].block = encode_minimal(Whole(Len(sunk)).output)

\* C29 witness: a ticker push between two lines, then the final flush.
C29_Witness ==
    /\ Returned("Ok")
    /\ Len(sunk) = 2
    /\ final_idx = 2
    /\ es.state[1].block = encode_minimal(Whole(1).output)
    /\ Whole(1).output # Whole(2).output

\* C30: once the race has ended the ticker never calls update_throttled
\* again, and after exec_cmd returned no push is made: updated_count and
\* the requests dispatched are final.
C30_NoPushAfterFinalFlush ==
    /\ [][TickStep => (pc = "racing" /\ pc' = "racing")]_vars
    /\ [][(pc = "done" \/ pc = "panicked") =>
            /\ es' = es
            /\ Len(outcome') = Len(outcome)
            /\ final_idx' = final_idx
            /\ next_tick' = next_tick]_vars

\* C30 witness: exec_cmd returned after its final flush while a tick of the
\* interval was due.
C30_Witness ==
    /\ Returned("Ok")
    /\ final_idx >= 1
    /\ now >= next_tick[1]

\* C31: set_status comes after the last append_line: once the exit status
\* is set no line reaches the sink and the output changes no more.
C31_StatusAfterLastLine ==
    /\ [][es.status # None =>
            /\ sunk' = sunk
            /\ full' = full
            /\ es'.output = es.output]_vars
    /\ [][es'.status # es.status => (sunk' = sunk /\ es'.output = es.output)]_vars

\* C31 witness: the status was set after two lines, and exec_cmd returned.
C31_Witness ==
    /\ pc = "done"
    /\ es.status # None
    /\ Len(sunk) = 2
    /\ es.output # <<>>

\* C35: while nothing was cut, the output is the lines passed to
\* append_line joined by newlines, empty and leading empty lines included.
C35_JoinedLines ==
    Len(Joined(sunk)) <= OUTPUT_TRUNCATE => es.output = Joined(sunk)

\* C36: whatever the exit status, the status is stored, the final flush is
\* made and exec_cmd returns Ok; an error is returned only for a failed
\* spawn, stream read or wait.
C36_AnyStatusCompletes ==
    /\ [][(es.status = None /\ es'.status # None) =>
            /\ es'.status = proc.exit
            /\ pc' = "flush"
            /\ result' = result]_vars
    /\ [][(pc = "flush" /\ pc' # "flush") =>
            /\ pc' = "done"
            /\ result' = Ok
            /\ final_idx' = Len(es'.state)
            /\ OfCompleted(es'.state[final_idx'])]_vars
    /\ [](result.tag = "Execute" =>
            /\ proc.error # None
            /\ result.cause \in {"Spawn", "CollectOutput", "Complete"}
            /\ es.status = None)
    /\ []((/\ pc = "racing" /\ proc.exit # None
           /\ proc.stdout = "eof" /\ proc.stderr = "eof")
          => ENABLED Resolve)

\* C36 witness: exec_cmd returned Ok for a command that exited with code 1.
C36_Witness ==
    /\ Returned("Ok")
    /\ es.status = Some([code |-> Some(1)])
    /\ final_idx >= 1
    /\ FinalText.notice = Some("1")

\* C37 as stated: a successful run of a command that printed output has
\* made one or more ticker pushes and then exactly one final flush.
C37_TickerPushesThenFlush ==
    (Returned("Ok") /\ es.output # <<>>) =>
        /\ final_idx = Len(es.state)
        /\ final_idx >= 2
        /\ \A i \in 1..(final_idx - 1) : ~OfCompleted(es.state[i])

\* C37 amended: a successful run of a command that printed output has made
\* zero or more ticker pushes and then exactly one final flush.
C37_PushesThenFlush ==
    /\ []((Returned("Ok") /\ es.output # <<>>) =>
            /\ final_idx = Len(es.state)
            /\ final_idx >= 1
            /\ OfCompleted(es.state[final_idx])
            /\ \A i \in 1..(final_idx - 1) : es.state[i].emoji = "hourglass")
    /\ [][Len(es'.state) > Len(es.state) =>
            /\ Len(es'.state) = Len(es.state) + 1
            /\ IF OfCompleted(es'.state[Len(es'.state)])
               THEN FlushStep ELSE TickStep]_vars

\* C37 witness: the command printed a line and exited before the ticker
\* could push: the final flush is the only push.
C37_Witness ==
    /\ Returned("Ok")
    /\ es.output # <<>>
    /\ final_idx = 1
    /\ Len(es.state) = 1

\* C38: the "truncated"/"truncating" label and the "[truncated] " prefix
\* are rendered only when bytes of the output were cut off: not for an
\* output of OUTPUT_TRUNCATE bytes or less in total.
C38_MarkedOnlyWhenCut ==
    (\/ HasLabel(build_status_msg(es), "truncated")
     \/ HasLabel(build_status_msg(es), "truncating")
     \/ build_status_msg(es).prefix # "")
    => Len(full) > OUTPUT_TRUNCATE

\* C39: append never panics: every cut position is a char boundary.
C39_AppendNeverPanics == pc # "panicked"

\* The throttle delay in seconds after `count` pushes.
Secs(count) ==
    IF count < 2 THEN 1
    ELSE IF count < 5 THEN 3
    ELSE IF count < 8 THEN 5
    ELSE 10

\* C34: the i-th pushed text of a running command carries the label
\* "throttling <n>s" exactly when the delay update_throttled enforces after
\* i pushes is more than 1 s, and n is that delay.
C34_LabelIsNextDelay ==
    /\ es.updated_count = Len(es.state)
    /\ throttle_duration(es) = Secs(Len(es.state)) * 1000 - 50
    /\ \A i \in 1..Len(es.state) :
          ~OfCompleted(es.state[i]) =>
              /\ HasLabel(es.state[i], "throttling") <=> Secs(i) > 1
              /\ \A j \in DOMAIN es.state[i].labels :
                    es.state[i].labels[j].name = "throttling" =>
                        es.state[i].labels[j].arg = Secs(i)

\* C34 witness: update_throttled made the eighth push, labelled with the
\* 10 s delay that holds from then on.
C34_Witness ==
    /\ call.op = "update_throttled"
    /\ es.changed_at = now
    /\ es.updated_count = 8
    /\ Label("throttling", 10) = es.state[8].labels[1]
    /\ Label("throttling", 5) = es.state[7].labels[1]

CmdResolved == proc.exit # None /\ proc.stdout = "eof" /\ proc.stderr = "eof"

\* C32: when the child has exited and both streams have reached
\* end-of-file with no error, exec_cmd eventually leaves the racing phase,
\* makes the final flush and returns Ok; no tick ends the racing phase, and
\* exec_cmd leaves it with Ok only once the command has resolved.
C32_ResolvedRunReturns ==
    /\ (pc = "racing" /\ CmdResolved) ~> (Returned("Ok") /\ ~es.changed)
    /\ [][pc = "racing" /\ pc' # "racing" => ~TickStep]_vars
    /\ [][pc = "racing" /\ pc' = "flush" => CmdResolved]_vars
    /\ [][pc' = "done" /\ result'.tag = "Ok" /\ pc # "done" => FlushStep /\ CmdResolved]_vars

\* C32 witness: a run that went through ticks returned Ok after its
\* command resolved.
C32_Witness ==
    /\ Returned("Ok")
    /\ CmdResolved
    /\ next_tick # None
    /\ next_tick[1] > TICK_MS
    /\ es.status # None

\* A text that is nothing but white space.
Blank(s) == \A i \in DOMAIN s : s[i] \in White

\* The exec action was invoked with nothing but white space after its name.
EmptyCommand ==
    /\ invoked.data # None
    /\ LET data == invoked.data[1]
       IN  /\ Len(data) >= Len(Name)
           /\ SubSeq(data, 1, Len(Name)) = Name
           /\ Blank(SubSeq(data, Len(Name) + 1, Len(data)))

\* C40: invoked with an empty or white-space command, the action only
\* sends the help reply: no status message is created, no process is
\* spawned, no ticker is started, and it returns Ok when the reply was sent
\* and Error::Help when sending it failed.
C40_EmptyCommandGetsHelp ==
    EmptyCommand =>
        /\ pc \in {"invoke", "done"}
        /\ frontend = NoMessage
        /\ es = new(0)
        /\ outcome = <<>>
        /\ proc = NoProc
        /\ next_tick = None
        /\ pc = "done" =>
              \/ invoked.help = "sent" /\ result = Ok
              \/ invoked.help = "failed" /\ result.tag = "Help"

\* C40 witness: the help reply to a command of white space could not be
\* sent.
C40_Witness ==
    /\ pc = "done"
    /\ invoked.data = Some(Name \o <<NL, SP, NL>>)
    /\ invoked.help = "failed"
    /\ result.tag = "Help"

====
